---- MODULE Spec2Model ----
(***************************************************************************)
(* Platform association and divergence mapping of Code Base Investigator   *)
(* (codebasin/walkers.py): NodeAssociation, NodeAssociationMap,            *)
(* TreeAssociator and PlatformMapper.                                      *)
(*                                                                         *)
(* A forest is a sequence of nodes in pre-order; each node records its     *)
(* kind, its depth and its num_lines attribute.  A node of depth 0 is the  *)
(* FileNode that roots one file's tree, and the index of that node stands  *)
(* for the file name.                                                      *)
(***************************************************************************)
EXTENDS Integers, Sequences, FiniteSets, TLC

VARIABLES
    tree,        \* the forest: state.get_tree(fn) for every file fn
    applic,      \* applic[p][n]: result of n.evaluate_for_platform for p
    codebase,    \* codebase["files"]
    maps,        \* maps[fn]: NodeAssociationMap._node_associations of fn
    passes,      \* passes[fn][p]: number of TreeAssociator.walk calls made
    line_map,    \* TreeMapper.line_map
    file_map,    \* TreeMapper.file_map
    walks,       \* number of PlatformMapper.walk calls made
    mode,        \* "seq", or how two passes share a map: "serial"/"concurrent"
    rmap,        \* shared _node_associations: node -> record identity
    heap,        \* record identity -> NodeAssociation.platforms
    pc,          \* per pass: the statement it is about to execute
    idx,         \* per pass: position in its sequence of visited nodes
    absent,      \* per pass: outcome of the membership test of prepare_node
    ref          \* per pass: the record fetched by the subscript of line 54

vars == <<tree, applic, codebase, maps, passes, line_map, file_map, walks,
          mode, rmap, heap, pc, idx, absent, ref>>

seqVars == <<maps, passes, line_map, file_map, walks>>
raceVars == <<rmap, heap, pc, idx, absent, ref>>

\* Bounds of the model.
MaxPasses == 2
MaxWalks == 2
MaxRaceNodes == 5

Platforms == {"p1", "p2"}

\* lines value of a node without a num_lines attribute
NoLines == -1

Nd(k, d, l) == [kind |-> k, depth |-> d, lines |-> l]

----------------------------------------------------------------------------
\* Forests the analysis is run on.

\* spec.md section 8, end-to-end scenario
ExampleTree ==
    << Nd("File", 0, NoLines), Nd("Code", 1, 3),
       Nd("Start", 1, NoLines), Nd("Code", 2, 5),
       Nd("Cont", 1, NoLines), Nd("Code", 2, 2),
       Nd("End", 1, NoLines), Nd("Code", 1, 1) >>

\* two files, the first with one group
TwoFiles ==
    << Nd("File", 0, NoLines), Nd("Code", 1, 1), Nd("Start", 1, NoLines),
       Nd("Code", 2, 2), Nd("End", 1, NoLines),
       Nd("File", 0, NoLines), Nd("Code", 1, 4) >>

\* a group nested in the first branch of another
NestedTree ==
    << Nd("File", 0, NoLines), Nd("Start", 1, NoLines),
       Nd("Start", 2, NoLines), Nd("Code", 3, 1), Nd("End", 2, NoLines),
       Nd("Cont", 1, NoLines), Nd("Code", 2, 2), Nd("End", 1, NoLines) >>

\* a group of three alternatives
ThreeBranches ==
    << Nd("File", 0, NoLines), Nd("Start", 1, NoLines), Nd("Code", 2, 1),
       Nd("Cont", 1, NoLines), Nd("Code", 2, 2),
       Nd("Cont", 1, NoLines), Nd("Code", 2, 4), Nd("End", 1, NoLines) >>

\* directives that carry a line count themselves, and a code node of 0 lines
CountedMarkers ==
    << Nd("File", 0, NoLines), Nd("Start", 1, 1), Nd("Code", 2, 0),
       Nd("Cont", 1, 1), Nd("Code", 2, 2), Nd("End", 1, 1) >>

\* not well formed: code between the branches, no END, CONT opening a group
Unbalanced ==
    << Nd("File", 0, NoLines), Nd("Start", 1, NoLines), Nd("Code", 2, 1),
       Nd("Code", 1, 2), Nd("Cont", 1, NoLines), Nd("Code", 2, 4) >>

\* not well formed: code below code and below END, END after a taken branch
Misplaced ==
    << Nd("File", 0, NoLines), Nd("Code", 1, 1), Nd("Code", 2, 2),
       Nd("Start", 1, NoLines), Nd("End", 1, NoLines), Nd("Code", 2, 4),
       Nd("Cont", 1, NoLines), Nd("Code", 2, 3) >>

\* code below the END marker of a group
EndBody ==
    << Nd("File", 0, NoLines), Nd("Start", 1, NoLines), Nd("Code", 2, 1),
       Nd("End", 1, NoLines), Nd("Code", 2, 2) >>

\* a file without any code
NoCode ==
    << Nd("File", 0, NoLines), Nd("Start", 1, NoLines), Nd("End", 1, NoLines) >>

Forests == {ExampleTree, TwoFiles, NestedTree, ThreeBranches, CountedMarkers,
            Unbalanced, Misplaced, EndBody, NoCode}

----------------------------------------------------------------------------
\* Structure of the forest (Node.children, FileNode.filename).

Nodes == 1..Len(tree)

Files == {n \in Nodes : tree[n].depth = 0}

\* the last node at or before m that has depth d, 0 if there is none
RECURSIVE LastAtDepth(_, _)
LastAtDepth(m, d) ==
    IF m = 0 THEN 0
    ELSE IF tree[m].depth = d THEN m ELSE LastAtDepth(m - 1, d)

\* the parent of node n, 0 for a file node
Parent(n) ==
    IF tree[n].depth = 0 THEN 0 ELSE LastAtDepth(n - 1, tree[n].depth - 1)

\* node.children, in declaration order
Children(n) ==
    LET IsChild(m) == Parent(m) = n
    IN  SelectSeq([k \in 1..Len(tree) |-> k], IsChild)

\* tree.root.filename of the tree that holds node n
FileOf(n) == LastAtDepth(n, 0)

RECURSIVE IsAncestor(_, _)
IsAncestor(a, n) ==
    /\ a < n
    /\ LET parent == Parent(n)
       IN  /\ parent > 0
           /\ parent = a \/ IsAncestor(a, parent)

Descendants(n) == {d \in Nodes : IsAncestor(n, d)}

NodesOf(fn) == {n \in Nodes : FileOf(n) = fn}

is_start_node(n) == tree[n].kind = "Start"
is_cont_node(n) == tree[n].kind = "Cont"
is_end_node(n) == tree[n].kind = "End"
IsFileNode(n) == tree[n].kind = "File"
HasNumLines(n) == tree[n].lines # NoLines

\* node.evaluate_for_platform(platform, filename, state)
evaluate_for_platform(n, p) ==
    IF is_start_node(n) \/ is_cont_node(n) THEN applic[p][n] ELSE TRUE

----------------------------------------------------------------------------
\* NodeAssociation and NodeAssociationMap.  A map is a function from the
\* nodes that have a record to the record's set of platforms.

EmptyMap == [n \in {} |-> {}]

\* variant: the record is replaced instead of extended
NodeAssociation_add_platform_overwrite(platforms, p) == {p}

NodeAssociation_add_platform(platforms, p) ==
    IF p \notin platforms THEN platforms \cup {p} ELSE platforms

\* variant: without the membership test
prepare_node_reset(m, n) ==
    IF n \in DOMAIN m THEN [m EXCEPT ![n] = {}] ELSE m @@ (n :> {})

prepare_node(m, n) ==
    IF n \notin DOMAIN m THEN m @@ (n :> {}) ELSE m

add_platform(m, n, p) ==
    LET prepared == prepare_node(m, n)
    IN  [prepared EXCEPT ![n] = NodeAssociation_add_platform(@, p)]

\* get_association returns None for a node without a record
get_association(m, n) ==
    IF n \in DOMAIN m THEN [found |-> TRUE, platforms |-> m[n]]
    ELSE [found |-> FALSE, platforms |-> {}]

----------------------------------------------------------------------------
\* TreeAssociator._associate_nodes.  The result holds the association map
\* after the call and the returned node_processed.

RECURSIVE associate_nodes(_, _, _, _)
RECURSIVE associate_children(_, _, _, _, _)

\* variant: the platform is recorded only on a node that is processed
associate_nodes_late(m, n, p, process_children) ==
    IF process_children /\ evaluate_for_platform(n, p)
    THEN [map |-> associate_children(add_platform(m, n, p), Children(n), 1, p, TRUE),
          processed |-> TRUE]
    ELSE [map |-> m, processed |-> FALSE]

\* variant: a taken branch does not stop the later ones
associate_children_all(m, kids, i, p, process_child) ==
    IF i > Len(kids) THEN m
    ELSE LET r == associate_nodes(m, kids[i], p, process_child)
         IN  associate_children(r.map, kids, i + 1, p, process_child)

\* variant: only a taken START node stops the later branches
associate_children_start_only(m, kids, i, p, process_child) ==
    IF i > Len(kids) THEN m
    ELSE LET child == kids[i]
             r == associate_nodes(m, child, p, process_child)
             next == IF r.processed /\ is_start_node(child)
                     THEN FALSE
                     ELSE IF ~process_child /\ is_end_node(child)
                          THEN TRUE
                          ELSE process_child
         IN  associate_children(r.map, kids, i + 1, p, next)

associate_nodes(m, n, p, process_children) ==
    LET m1 == add_platform(m, n, p)
    IN  IF process_children /\ evaluate_for_platform(n, p)
        THEN [map |-> associate_children(m1, Children(n), 1, p, TRUE),
              processed |-> TRUE]
        ELSE [map |-> m1, processed |-> FALSE]

\* the loop over node.children from the i-th child on
associate_children(m, kids, i, p, process_child) ==
    IF i > Len(kids) THEN m
    ELSE LET child == kids[i]
             r == associate_nodes(m, child, p, process_child)
             next == IF r.processed /\ (is_start_node(child) \/ is_cont_node(child))
                     THEN FALSE
                     ELSE IF ~process_child /\ is_end_node(child)
                          THEN TRUE
                          ELSE process_child
         IN  associate_children(r.map, kids, i + 1, p, next)

\* TreeAssociator.walk(platform, state) on the tree of file fn
Associate(fn, p) ==
    /\ mode = "seq"
    /\ passes[fn][p] < MaxPasses
    /\ maps' = [maps EXCEPT ![fn] = associate_nodes(@, fn, p, TRUE).map]
    /\ passes' = [passes EXCEPT ![fn][p] = @ + 1]
    /\ UNCHANGED <<tree, applic, codebase, line_map, file_map, walks, mode>>
    /\ UNCHANGED raceVars

----------------------------------------------------------------------------
\* TreeMapper.walk and PlatformMapper._map_node.

EmptyLineMap == [s \in {} |-> 0]
EmptyFileMap == [s \in {} |-> [f \in {} |-> 0]]

\* variant: the entry is assigned instead of incremented
AddTo_assign(d, k, v) ==
    IF k \in DOMAIN d THEN [d EXCEPT ![k] = v] ELSE d @@ (k :> v)

\* d[k] += v on a defaultdict(int)
AddTo(d, k, v) ==
    IF k \in DOMAIN d THEN [d EXCEPT ![k] = @ + v] ELSE d @@ (k :> v)

\* the accumulation of lines 204-211 and 213-219 for key s
Count(lf, s, fn, lines) ==
    LET fm1 == IF s \notin DOMAIN lf.file_map
               THEN lf.file_map @@ (s :> [f \in {} |-> 0])
               ELSE lf.file_map
        fm2 == IF fn \notin DOMAIN fm1[s]
               THEN [fm1 EXCEPT ![s] = @ @@ (fn :> 0)]
               ELSE fm1
    IN  [line_map |-> AddTo(lf.line_map, s, lines),
         file_map |-> [fm2 EXCEPT ![s][fn] = @ + lines]]

RECURSIVE map_node(_, _, _, _)
RECURSIVE map_children(_, _, _, _, _)

\* variant: a node without a record is not counted
map_node_skip_absent(lf, fn, n, m) ==
    IF IsFileNode(n) /\ n \notin codebase THEN lf
    ELSE LET lf1 ==
                 IF HasNumLines(n) /\ ~IsFileNode(n) /\ get_association(m, n).found
                 THEN Count(lf, get_association(m, n).platforms, fn, tree[n].lines)
                 ELSE lf
         IN  map_children(lf1, fn, Children(n), 1, m)

\* variant: without the test of the codebase descriptor
map_node_unfiltered(lf, fn, n, m) ==
    LET lf1 ==
            IF HasNumLines(n) /\ ~IsFileNode(n)
            THEN LET association == get_association(m, n)
                 IN  IF association.found
                     THEN Count(lf, association.platforms, fn, tree[n].lines)
                     ELSE Count(lf, {}, fn, tree[n].lines)
            ELSE lf
    IN  map_children(lf1, fn, Children(n), 1, m)

map_node(lf, fn, n, m) ==
    IF IsFileNode(n) /\ n \notin codebase THEN lf
    ELSE LET lf1 ==
                 IF HasNumLines(n) /\ ~IsFileNode(n)
                 THEN LET association == get_association(m, n)
                      IN  IF association.found
                          THEN Count(lf, association.platforms, fn, tree[n].lines)
                          ELSE Count(lf, {}, fn, tree[n].lines)
                 ELSE lf
         IN  map_children(lf1, fn, Children(n), 1, m)

map_children(lf, fn, kids, i, m) ==
    IF i > Len(kids) THEN lf
    ELSE map_children(map_node(lf, fn, kids[i], m), fn, kids, i + 1, m)

\* the loop of TreeMapper.walk over state.get_filenames()
\* (ms[fn] is state.get_map(fn))
RECURSIVE map_files(_, _, _)
map_files(lf, fns, ms) ==
    IF fns = {} THEN lf
    ELSE LET fn == CHOOSE f \in fns : TRUE
         IN  map_files(map_node(lf, fn, fn, ms[fn]), fns \ {fn}, ms)

\* variant: without the test of line_map
MapperWalk_unguarded ==
    /\ mode = "seq"
    /\ walks < MaxWalks
    /\ LET lf == map_files([line_map |-> line_map, file_map |-> file_map],
                           Files, maps)
       IN  /\ line_map' = lf.line_map
           /\ file_map' = lf.file_map
    /\ walks' = walks + 1
    /\ UNCHANGED <<tree, applic, codebase, maps, passes, mode>>
    /\ UNCHANGED raceVars

\* TreeMapper.walk(state)
MapperWalk ==
    /\ mode = "seq"
    /\ walks < MaxWalks
    /\ LET lf == IF line_map = EmptyLineMap
                 THEN map_files([line_map |-> line_map, file_map |-> file_map],
                                Files, maps)
                 ELSE [line_map |-> line_map, file_map |-> file_map]
       IN  /\ line_map' = lf.line_map
           /\ file_map' = lf.file_map
    /\ walks' = walks + 1
    /\ UNCHANGED <<tree, applic, codebase, maps, passes, mode>>
    /\ UNCHANGED raceVars

----------------------------------------------------------------------------
BranchNodes(t) == {n \in 1..Len(t) : t[n].kind \in {"Start", "Cont"}}

RootsOf(t) == {n \in 1..Len(t) : t[n].depth = 0}

\* applicability is free on START and CONT nodes; every other node is
\* always applicable
Applics(t) ==
    {a \in [Platforms -> [1..Len(t) -> BOOLEAN]] :
        \A p \in Platforms : \A n \in 1..Len(t) :
            n \notin BranchNodes(t) => a[p][n]}

InitInputs ==
    /\ tree \in Forests
    /\ applic \in Applics(tree)
    /\ codebase \in SUBSET RootsOf(tree)

RaceIdle ==
    /\ rmap = EmptyMap
    /\ heap = << >>
    /\ pc = [p \in Platforms |-> "done"]
    /\ idx = [p \in Platforms |-> 0]
    /\ absent = [p \in Platforms |-> FALSE]
    /\ ref = [p \in Platforms |-> 0]

Init ==
    /\ InitInputs
    /\ mode = "seq"
    /\ maps = [fn \in RootsOf(tree) |-> EmptyMap]
    /\ passes = [fn \in RootsOf(tree) |-> [p \in Platforms |-> 0]]
    /\ line_map = EmptyLineMap
    /\ file_map = EmptyFileMap
    /\ walks = 0
    /\ RaceIdle

AssociatorWalk == \E fn \in Files, p \in Platforms : Associate(fn, p)

Next ==
    \/ AssociatorWalk
    \/ MapperWalk

Spec == Init /\ [][Next]_vars

----------------------------------------------------------------------------
\* Two TreeAssociator passes, one per platform, over the tree of the first
\* file and one shared NodeAssociationMap, statement by statement.  Records
\* are objects: rmap holds their identities and heap their platform sets.

\* the nodes a pass of p calls add_platform on, in call order, and the
\* node_processed it returns
RECURSIVE visit_nodes(_, _, _)
RECURSIVE visit_children(_, _, _, _)

visit_nodes(n, p, process_children) ==
    IF process_children /\ evaluate_for_platform(n, p)
    THEN [order |-> <<n>> \o visit_children(Children(n), 1, p, TRUE),
          processed |-> TRUE]
    ELSE [order |-> <<n>>, processed |-> FALSE]

visit_children(kids, i, p, process_child) ==
    IF i > Len(kids) THEN << >>
    ELSE LET child == kids[i]
             r == visit_nodes(child, p, process_child)
             next == IF r.processed /\ (is_start_node(child) \/ is_cont_node(child))
                     THEN FALSE
                     ELSE IF ~process_child /\ is_end_node(child)
                          THEN TRUE
                          ELSE process_child
         IN  r.order \o visit_children(kids, i + 1, p, next)

Visits(p) == visit_nodes(1, p, TRUE).order

Current(p) == Visits(p)[idx[p]]

InPass(p) == pc[p] # "done" /\ ~(pc[p] = "test" /\ idx[p] = 1)

\* serialized passes run one after the other
CanRun(p) ==
    /\ mode \in {"serial", "concurrent"}
    /\ mode = "serial" => \A q \in Platforms \ {p} : ~InPass(q)

\* variant: the membership test always finds the node missing
RaceTest_always_absent(p) ==
    /\ CanRun(p)
    /\ pc[p] = "test"
    /\ absent' = [absent EXCEPT ![p] = TRUE]
    /\ pc' = [pc EXCEPT ![p] = "create"]
    /\ UNCHANGED <<rmap, heap, idx, ref>>
    /\ UNCHANGED <<tree, applic, codebase, mode>>
    /\ UNCHANGED seqVars

\* prepare_node: the membership test
RaceTest(p) ==
    /\ CanRun(p)
    /\ pc[p] = "test"
    /\ absent' = [absent EXCEPT ![p] = Current(p) \notin DOMAIN rmap]
    /\ pc' = [pc EXCEPT ![p] = IF absent'[p] THEN "create" ELSE "lookup"]
    /\ UNCHANGED <<rmap, heap, idx, ref>>
    /\ UNCHANGED <<tree, applic, codebase, mode>>
    /\ UNCHANGED seqVars

\* prepare_node: the store of a new NodeAssociation
RaceCreate(p) ==
    /\ CanRun(p)
    /\ pc[p] = "create"
    /\ heap' = Append(heap, {})
    /\ rmap' = IF Current(p) \in DOMAIN rmap
               THEN [rmap EXCEPT ![Current(p)] = Len(heap) + 1]
               ELSE rmap @@ (Current(p) :> Len(heap) + 1)
    /\ pc' = [pc EXCEPT ![p] = "lookup"]
    /\ UNCHANGED <<idx, absent, ref>>
    /\ UNCHANGED <<tree, applic, codebase, mode>>
    /\ UNCHANGED seqVars

\* add_platform: the subscript self._node_associations[_node]
RaceLookup(p) ==
    /\ CanRun(p)
    /\ pc[p] = "lookup"
    /\ ref' = [ref EXCEPT ![p] = rmap[Current(p)]]
    /\ pc' = [pc EXCEPT ![p] = "add"]
    /\ UNCHANGED <<rmap, heap, idx, absent>>
    /\ UNCHANGED <<tree, applic, codebase, mode>>
    /\ UNCHANGED seqVars

\* NodeAssociation.add_platform on the fetched record, then the next node
RaceAdd(p) ==
    /\ CanRun(p)
    /\ pc[p] = "add"
    /\ heap' = [heap EXCEPT ![ref[p]] = NodeAssociation_add_platform(@, p)]
    /\ idx' = [idx EXCEPT ![p] = @ + 1]
    /\ pc' = [pc EXCEPT ![p] = IF idx[p] + 1 > Len(Visits(p)) THEN "done" ELSE "test"]
    /\ UNCHANGED <<rmap, absent, ref>>
    /\ UNCHANGED <<tree, applic, codebase, mode>>
    /\ UNCHANGED seqVars

InitRace ==
    /\ tree \in {t \in Forests : Len(t) <= MaxRaceNodes}
    /\ applic \in Applics(tree)
    /\ codebase = RootsOf(tree)
    /\ mode \in {"serial", "concurrent"}
    /\ maps = [fn \in RootsOf(tree) |-> EmptyMap]
    /\ passes = [fn \in RootsOf(tree) |-> [p \in Platforms |-> 0]]
    /\ line_map = EmptyLineMap
    /\ file_map = EmptyFileMap
    /\ walks = 0
    /\ rmap = EmptyMap
    /\ heap = << >>
    /\ pc = [p \in Platforms |-> "test"]
    /\ idx = [p \in Platforms |-> 1]
    /\ absent = [p \in Platforms |-> FALSE]
    /\ ref = [p \in Platforms |-> 0]

NextRace ==
    \E p \in Platforms :
        \/ RaceTest(p)
        \/ RaceCreate(p)
        \/ RaceLookup(p)
        \/ RaceAdd(p)

SpecRace == InitRace /\ [][NextRace]_vars

----------------------------------------------------------------------------
\* Vocabulary of the properties.

RECURSIVE SumLines(_)
SumLines(S) ==
    IF S = {} THEN 0
    ELSE LET n == CHOOSE x \in S : TRUE
         IN  tree[n].lines + SumLines(S \ {n})

RECURSIVE SumValues(_)
SumValues(f) ==
    IF DOMAIN f = {} THEN 0
    ELSE LET k == CHOOSE x \in DOMAIN f : TRUE
         IN  f[k] + SumValues([x \in DOMAIN f \ {k} |-> f[x]])

\* reading a defaultdict(int) entry
Get(d, k) == IF k \in DOMAIN d THEN d[k] ELSE 0

FileGet(fm, s, fn) == IF s \in DOMAIN fm THEN Get(fm[s], fn) ELSE 0

\* the non-file nodes of file fn that carry a line count
LineNodes(fn) == {n \in NodesOf(fn) : HasNumLines(n) /\ ~IsFileNode(n)}

CodebaseLineNodes == UNION {LineNodes(fn) : fn \in Files \cap codebase}

Siblings(n) ==
    LET parent == Parent(n)
    IN  IF parent = 0 THEN {}
        ELSE {m \in Nodes : m # n /\ Parent(m) = parent}

\* the START and CONT nodes of n's group that precede n: the earlier
\* siblings with no END marker between them and n
EarlierInGroup(n) ==
    LET earlier == {m \in Siblings(n) : m < n}
    IN  {m \in earlier :
            /\ is_start_node(m) \/ is_cont_node(m)
            /\ \A e \in earlier : m < e => ~is_end_node(e)}

\* n is the branch its group takes for p
RECURSIVE Taken(_, _)
Taken(n, p) ==
    /\ evaluate_for_platform(n, p)
    /\ LET parent == Parent(n)
       IN  parent > 0 =>
              /\ Taken(parent, p)
              /\ \A m \in EarlierInGroup(n) : ~evaluate_for_platform(m, p)

\* p compiles n: every enclosing branch node is applicable to p and is the
\* first applicable branch of its group
Compiles(p, n) ==
    \A b \in Nodes :
        (IsAncestor(b, n) /\ ~IsFileNode(b)) =>
            /\ evaluate_for_platform(b, p)
            /\ \A m \in EarlierInGroup(b) : ~evaluate_for_platform(m, p)

CompilingSet(n) == {p \in Platforms : Compiles(p, n)}

PrevSibling(n) ==
    LET earlier == {m \in Siblings(n) : m < n}
    IN  IF earlier = {} THEN 0 ELSE CHOOSE m \in earlier : \A x \in earlier : x <= m
NextSibling(n) ==
    LET later == {m \in Siblings(n) : m > n}
    IN  IF later = {} THEN 0 ELSE CHOOSE m \in later : \A x \in later : m <= x

IsBranch(n) == n > 0 /\ (is_start_node(n) \/ is_cont_node(n))

\* code only below the file root or a branch node; every group is START,
\* CONT*, END as consecutive siblings
WellFormed(fn) ==
    \A n \in NodesOf(fn) \ {fn} :
        /\ tree[n].kind = "Code" =>
              tree[Parent(n)].kind \in {"File", "Start", "Cont", "End"}
        /\ is_cont_node(n) \/ is_end_node(n) => IsBranch(PrevSibling(n))
        /\ IsBranch(n) =>
              /\ NextSibling(n) > 0
              /\ is_cont_node(NextSibling(n)) \/ is_end_node(NextSibling(n))
        /\ is_start_node(n) => ~IsBranch(PrevSibling(n))

\* the platforms recorded on node n
Recorded(n) ==
    IF n \in DOMAIN maps[FileOf(n)] THEN maps[FileOf(n)][n] ELSE {}

HasRecord(n) == n \in DOMAIN maps[FileOf(n)]

\* the key the mapper counts node n under
KeyOf(n) == Recorded(n)

WalkStep == walks' = walks + 1

EffectiveWalkStep == WalkStep /\ line_map = EmptyLineMap

\* the maps a fresh PlatformMapper computes from association maps ms
FreshWalk(ms) ==
    map_files([line_map |-> EmptyLineMap, file_map |-> EmptyFileMap], Files, ms)

----------------------------------------------------------------------------
\* C1 - conservation of lines: once walk has run, the line map sums to the
\* total line count of the line-carrying non-file nodes of the in-codebase
\* files, and so does the file map, file by file.
ConservationOfLines ==
    walks > 0 =>
        /\ SumValues(line_map) = SumLines(CodebaseLineNodes)
        /\ \A fn \in Files \cap codebase :
              SumValues([s \in DOMAIN file_map |-> Get(file_map[s], fn)])
                  = SumLines(LineNodes(fn))

ConservationWitness ==
    /\ walks > 0
    /\ Cardinality(DOMAIN line_map) >= 3
    /\ {} \in DOMAIN line_map
    /\ Cardinality(codebase) = 2
    /\ SumValues(line_map) = 7

\* C2 - exact attribution: on well-formed in-codebase trees, a walk that
\* follows exactly one pass per platform gives every platform set the lines
\* of the code nodes compiled by exactly that set, in total and per file;
\* the scenario of the specification yields exactly its three entries.
ScenarioApplic ==
    /\ applic["p1"][3] /\ ~applic["p2"][3]
    /\ applic["p1"][5] /\ applic["p2"][5]

ScenarioLineMap ==
    ({"p1", "p2"} :> 4) @@ ({"p1"} :> 5) @@ ({"p2"} :> 2)

OnePassEach ==
    \A fn \in Files \cap codebase : \A p \in Platforms : passes[fn][p] = 1

ExactAttribution ==
    [][ ( /\ EffectiveWalkStep
          /\ OnePassEach
          /\ \A fn \in Files \cap codebase : WellFormed(fn) )
        =>
        ( /\ \A s \in SUBSET Platforms :
                /\ Get(line_map', s) =
                      SumLines({n \in CodebaseLineNodes : CompilingSet(n) = s})
                /\ \A fn \in Files \cap codebase :
                      FileGet(file_map', s, fn) =
                          SumLines({n \in LineNodes(fn) : CompilingSet(n) = s})
          /\ (tree = ExampleTree /\ ScenarioApplic /\ codebase = {1}) =>
                /\ line_map' = ScenarioLineMap
                /\ file_map' = [s \in DOMAIN ScenarioLineMap |->
                                   (1 :> ScenarioLineMap[s])] ) ]_vars

ExactAttributionWitness ==
    /\ tree = ExampleTree /\ ScenarioApplic /\ codebase = {1}
    /\ OnePassEach
    /\ walks > 0
    /\ line_map = ScenarioLineMap

\* C3 - mutual exclusion: when an earlier START or CONT node of a group is
\* applicable to a platform, that platform is on no descendant of a later
\* CONT node of the group, whatever the later node evaluates to.
MutualExclusion ==
    \A c \in Nodes : \A p \in Platforms :
        (is_cont_node(c) /\ \E m \in EarlierInGroup(c) : evaluate_for_platform(m, p))
            => \A d \in Descendants(c) : p \notin Recorded(d)

MutualExclusionWitness ==
    \E c \in Nodes : \E p \in Platforms : \E m \in EarlierInGroup(c) :
        /\ is_cont_node(c) /\ is_start_node(m)
        /\ passes[FileOf(c)][p] > 0
        /\ applic[p][m] /\ applic[p][c]
        /\ \E d \in Descendants(m) : p \in Recorded(d)
        /\ \E d \in Descendants(c) : p \notin Recorded(d)

\* C4 - idempotence of aggregation: a walk that is not the first returns
\* the line map and the file map that the walk before it returned.
WalkIdempotent ==
    [][ (WalkStep /\ walks >= 1) =>
            (line_map' = line_map /\ file_map' = file_map) ]_vars

WalkIdempotentWitness ==
    /\ walks = 2
    /\ Cardinality(DOMAIN line_map) >= 2
    /\ SumValues(line_map) > 0

\* C5 - unassociated attribution: the lines of the in-codebase line nodes
\* that have no record when walk runs are counted under the empty platform
\* set, in the line map and in the file map of their file, and every other
\* key holds only the lines of the nodes whose record is that key.
UnassociatedAttribution ==
    [][ EffectiveWalkStep =>
          /\ \A fn \in Files \cap codebase :
                LET U == {n \in LineNodes(fn) : ~HasRecord(n)}
                IN  /\ FileGet(file_map', {}, fn) = SumLines(U)
                    /\ U # {} => /\ {} \in DOMAIN line_map'
                                 /\ {} \in DOMAIN file_map'
                                 /\ fn \in DOMAIN file_map'[{}]
          /\ Get(line_map', {}) =
                SumLines({n \in CodebaseLineNodes : ~HasRecord(n)})
          /\ \A s \in (SUBSET Platforms) \ {{}} :
                Get(line_map', s) =
                    SumLines({n \in CodebaseLineNodes :
                                 HasRecord(n) /\ Recorded(n) = s}) ]_vars

UnassociatedWitness ==
    /\ walks > 0
    /\ \E n \in CodebaseLineNodes :
          /\ ~HasRecord(n)
          /\ tree[n].lines > 0
          /\ \A p \in Platforms : passes[FileOf(n)][p] > 0
          /\ {} \in DOMAIN line_map
          /\ line_map[{}] = tree[n].lines
          /\ file_map[{}][FileOf(n)] = tree[n].lines
    /\ Cardinality(DOMAIN line_map) >= 2

\* C6 - codebase filtering: a walk adds nothing for a file outside the
\* codebase; both maps are those of a state holding the in-codebase files
\* only.
CodebaseFiltering ==
    [][ EffectiveWalkStep =>
          /\ \A s \in DOMAIN file_map' : DOMAIN file_map'[s] \subseteq codebase
          /\ LET inside == map_files([line_map |-> EmptyLineMap,
                                      file_map |-> EmptyFileMap],
                                     Files \cap codebase, maps)
             IN  /\ line_map' = inside.line_map
                 /\ file_map' = inside.file_map ]_vars

CodebaseFilteringWitness ==
    /\ walks > 0
    /\ line_map # EmptyLineMap
    /\ \E fn \in Files \ codebase :
          \E n \in LineNodes(fn) : tree[n].lines > 0 /\ Recorded(n) = Platforms

\* C7 - order independence: whatever order the passes ran in, every node
\* has the record that the passes of the same platforms leave when run in
\* the order p1, p2, and walk returns the maps computed from those records.
RECURSIVE RunPasses(_, _, _)
RunPasses(m, fn, ps) ==
    IF ps = << >> THEN m
    ELSE RunPasses(associate_nodes(m, fn, Head(ps), TRUE).map, fn, Tail(ps))

PassedOn(fn) ==
    SelectSeq(<<"p1", "p2">>, LAMBDA p : passes[fn][p] > 0)

CanonicalMaps == [fn \in Files |-> RunPasses(EmptyMap, fn, PassedOn(fn))]

OrderIndependence ==
    /\ [](maps = CanonicalMaps)
    /\ [][ EffectiveWalkStep =>
             /\ line_map' = FreshWalk(CanonicalMaps).line_map
             /\ file_map' = FreshWalk(CanonicalMaps).file_map ]_vars

OrderIndependenceWitness ==
    /\ walks > 0
    /\ \A fn \in Files : \A p \in Platforms : passes[fn][p] = 1
    /\ {"p1", "p2"} \in DOMAIN line_map
    /\ {"p1"} \in DOMAIN line_map
    /\ {"p2"} \in DOMAIN line_map

\* C8 - as stated: a second pass of a platform changes the association
\* records and the line map computed from them.
RepeatedPassStep ==
    \E fn \in Files : \E p \in Platforms :
        passes[fn][p] >= 1 /\ passes'[fn][p] = passes[fn][p] + 1

SecondPassDoubleCounts ==
    [][ RepeatedPassStep =>
            (maps' # maps /\ FreshWalk(maps') # FreshWalk(maps)) ]_vars

\* C8 - amended: a second pass of a platform, with the same applicability
\* results, leaves every association record and the line and file maps
\* computed from them as they were.
SecondPassChangesNothing ==
    [][ RepeatedPassStep =>
            (maps' = maps /\ FreshWalk(maps') = FreshWalk(maps)) ]_vars

SecondPassWitness ==
    \E fn \in Files :
        /\ passes[fn]["p1"] = 2
        /\ passes[fn]["p2"] = 1
        /\ \E n \in LineNodes(fn) : Recorded(n) = {"p2"}
        /\ \E n \in LineNodes(fn) : Recorded(n) = {"p1"}

\* C9 - branch-marker asymmetry: after a pass of p, every child of a node
\* the pass processed has p in its record, also a branch that is not
\* applicable or whose group was claimed; below a node that was not
\* processed no node has p.
MarkerAsymmetry ==
    \A n \in Nodes : \A p \in Platforms :
        passes[FileOf(n)][p] > 0 =>
            /\ (Parent(n) = 0 \/ Taken(Parent(n), p)) => p \in Recorded(n)
            /\ ~Taken(n, p) => \A d \in Descendants(n) : p \notin Recorded(d)

MarkerAsymmetryWitness ==
    \E n \in Nodes : \E c \in Nodes : \E p \in Platforms :
        /\ passes[FileOf(n)][p] > 0
        /\ is_start_node(n) /\ ~applic[p][n] /\ p \in Recorded(n)
        /\ \E d \in Descendants(n) : p \notin Recorded(d)
        /\ is_cont_node(c) /\ FileOf(c) = FileOf(n)
        /\ applic[p][c] /\ ~Taken(c, p) /\ p \in Recorded(c)
        /\ \E d \in Descendants(c) : p \notin Recorded(d)

\* C10 - passes sharing a map: when the two passes are serialized and both
\* have finished, every node both visited has a record with both platform
\* names; interleaved without synchronization they can finish with such a
\* record missing a name.
VisitedByBoth == {n \in Nodes : \A p \in Platforms :
                     \E i \in 1..Len(Visits(p)) : Visits(p)[i] = n}

BothDone == \A p \in Platforms : pc[p] = "done"

SerializedPassesKeepNames ==
    (mode = "serial" /\ BothDone) =>
        \A n \in VisitedByBoth :
            n \in DOMAIN rmap /\ heap[rmap[n]] = Platforms

ConcurrentPassesLoseName ==
    /\ mode = "concurrent"
    /\ BothDone
    /\ \E n \in VisitedByBoth :
          n \in DOMAIN rmap /\ heap[rmap[n]] # Platforms

====
